---- MODULE Spec2Model ----
(***************************************************************************)
(* aSocket Snow (src/snow.js): the Effect Manager (aSocketSnow), its Layer  *)
(* Controllers and their Snowflakes, as a state machine driven by the host  *)
(* event loop: interval firings, population-delay expiries, resize events   *)
(* and calls of aSocketSnow.command(cmd).                                   *)
(*                                                                         *)
(* Numbers are integers.  Math.random() * width is an integer of            *)
(* 0..width-1, Math.sin(Date.now() * frequency) is any of SineVals.         *)
(***************************************************************************)
EXTENDS Integers, Sequences, FiniteSets, Bags, TLC

VARIABLES
    config,      \* aSocketSnow.CONFIG: one profile per layer (never written)
    snowflakes,  \* snowflakes[c]: Controller c's array of Snowflakes (element ids)
    document,    \* document[c]: Controller c's cached viewport {width, height}
    active,      \* active[c]: Controller c's active flag
    interval,    \* interval[c]: the handle kept by Controller c, or Null
    timers,      \* the host's live setInterval timers, [id, ctl]
    pending,     \* pending[c]: bag of loop counters i of the generate() calls
                 \* of Controller c that are suspended at their await
    style,       \* style[e]: inline style of every existing snowflake element e
    body,        \* the elements attached to the container
    ticks        \* number of interval firings counted by the scenario

vars == <<config, snowflakes, document, active, interval, timers, pending,
          style, body, ticks>>

----------------------------------------------------------------------------
(* Bounds *)

MaxExcess   == 0     \* at most (sum of the LIMITs) + MaxExcess elements attached at once
MaxPending  == 2     \* at most this many suspended generate() calls per Controller
MaxTicks    == 13    \* length of the scenario run

(* Program constants *)

FlakeSize == 10      \* .snowflake { height: 10px; width: 10px }
Null == 0            \* this.interval = null; timer handles are positive

SineVals == {-1, 1}       \* values of Math.sin(...)

\* The viewport sizes a load or a resize event can report.
Viewports == {[width |-> 1, height |-> 1], [width |-> 2, height |-> 3]}

\* The layer profiles (LIMIT, BLUR, FALL_RATE, SWAY_RATE), scaled down: a
\* snowflake of the first layer leaves through the bottom edge after one or
\* two ticks, one of the second layer through the right edge.
CONFIG ==
    << [LIMIT |-> 1, BLUR |-> 1, FALL_RATE |-> 12, SWAY_RATE |-> 0],
       [LIMIT |-> 1, BLUR |-> 4, FALL_RATE |-> 1, SWAY_RATE |-> 14] >>

\* A manager of three layers.
CONFIG3 ==
    << [LIMIT |-> 2, BLUR |-> 1, FALL_RATE |-> 14, SWAY_RATE |-> 0],
       [LIMIT |-> 1, BLUR |-> 4, FALL_RATE |-> 14, SWAY_RATE |-> 0],
       [LIMIT |-> 1, BLUR |-> 4, FALL_RATE |-> 14, SWAY_RATE |-> 0] >>

\* The names passed to aSocketSnow.command.
Methods == {"start", "stop", "spawn", "clear", "generate", "animate", "remove"}
CommandNames == {"start", "stop", "spawn", "clear", "snowflakes", "unknown"}
ManagerCommands == {"spawn", "clear", "snowflakes", "unknown"}

----------------------------------------------------------------------------
(* Helpers *)

Range(s) == {s[i] : i \in DOMAIN s}

Min(S) == CHOOSE x \in S : \A y \in S : x <= y

Controllers == 1..Len(config)

\* Array.prototype.indexOf, 1-based; 0 when absent.
indexOf(s, p) ==
    IF p \in Range(s) THEN Min({i \in DOMAIN s : s[i] = p}) ELSE 0

\* Array.prototype.splice(k, 1) for a 1-based k; k = 0 stands for the
\* JavaScript index -1, which addresses the last element; a k beyond the
\* end deletes nothing.
splice(s, k) ==
    LET j == IF k = 0 THEN Len(s) ELSE k
    IN  IF j = 0 \/ j > Len(s) THEN s
        ELSE [i \in 1..(Len(s) - 1) |-> IF i < j THEN s[i] ELSE s[i + 1]]

----------------------------------------------------------------------------
(* Snowflake *)

\* value + 'px'
ToPx(value) == [num |-> value, unit |-> "px"]

\* Number(text.replace('px', ''))
FromPx(text) == text.num

\* get top / get left
top(m, p)  == FromPx(m.style[p].top)
left(m, p) == FromPx(m.style[p].left)

\* set top / set left
setTop(m, p, value)  == [m EXCEPT !.style[p].top = ToPx(value)]
setLeft(m, p, value) == [m EXCEPT !.style[p].left = ToPx(value)]

\* get bounds: the container is fixed at (0, 0), so the box of an attached
\* element starts at its style position; a detached element has an empty box.
bounds(m, p) ==
    IF p \in m.body
    THEN [x |-> left(m, p), y |-> top(m, p), width |-> FlakeSize, height |-> FlakeSize]
    ELSE [x |-> 0, y |-> 0, width |-> 0, height |-> 0]

\* document.createElement: a fresh element identity.
createElement(m) ==
    Min((1..(Cardinality(DOMAIN m.style) + 1)) \ DOMAIN m.style)

\* new Snowflake(x, y, container, blur); yields the machine with the element
\* created and attached, the element being createElement(m).
Snowflake(m, x, y, blur) ==
    LET e == createElement(m)
    IN  [m EXCEPT !.style = @ @@ (e :> [left |-> ToPx(x), top |-> ToPx(y), filter |-> blur]),
                  !.body = @ \cup {e}]

----------------------------------------------------------------------------
(* Controller.  An operation maps a machine m (the record of the variables  *)
(* it may write) to the machine it leaves, or to the set of machines it may *)
(* leave when it draws a random number or reads the clock.                  *)

\* aSocketSnow.getSine
getSine(amplitude, frequency, verticalShift) ==
    {amplitude * s + verticalShift : s \in SineVals}

\* Controller.spawn
spawn(m, c) ==
    { [Snowflake(m, x, 0, config[c].BLUR)
          EXCEPT !.snowflakes[c] = Append(@, createElement(m))]
      : x \in 0..(m.document[c].width - 1) }

\* Controller.generate, up to its first await.
generate(m, c) ==
    IF Len(m.snowflakes[c]) < config[c].LIMIT
    THEN [m EXCEPT !.pending[c] = @ (+) SetToBag({Len(m.snowflakes[c])})]
    ELSE m

\* Controller.generate, from the await of loop counter i to the next await.
generateResume(m, c, i) ==
    LET m1 == [m EXCEPT !.pending[c] = @ (-) SetToBag({i})]
    IN  IF ~m1.active[c] THEN {m1}
        ELSE { IF i + 1 < config[c].LIMIT
               THEN [m2 EXCEPT !.pending[c] = @ (+) SetToBag({i + 1})]
               ELSE m2
               : m2 \in spawn(m1, c) }

\* setInterval: a fresh positive handle.
setInterval(m) ==
    LET used == {t.id : t \in m.timers}
    IN  Min((1..(Cardinality(used) + 1)) \ used)

\* start() without its guard on the active flag.
startUnguarded(m, c) ==
    LET m1 == generate([m EXCEPT !.active[c] = TRUE], c)
        h  == setInterval(m1)
    IN  [m1 EXCEPT !.interval[c] = h,
                   !.timers = @ \cup {[id |-> h, ctl |-> c]}]

\* start() that reads the viewport again, as the constructor does before it
\* calls start().
startReadsViewport(m, c) ==
    IF m.active[c] THEN m
    ELSE LET m1 == generate([m EXCEPT !.active[c] = TRUE,
                                      !.document[c] = [width |-> 1, height |-> 1]], c)
             h  == setInterval(m1)
         IN  [m1 EXCEPT !.interval[c] = h,
                        !.timers = @ \cup {[id |-> h, ctl |-> c]}]

\* Controller.start
start(m, c) ==
    IF m.active[c] THEN m
    ELSE LET m1 == generate([m EXCEPT !.active[c] = TRUE], c)
             h  == setInterval(m1)
         IN  [m1 EXCEPT !.interval[c] = h,
                        !.timers = @ \cup {[id |-> h, ctl |-> c]}]

\* remove() whose splice deletes two elements: splice(indexOf(snowflake), 2).
removeSpliceTwo(m, c, p) ==
    [m EXCEPT !.snowflakes[c] = splice(splice(@, indexOf(@, p)), indexOf(@, p)),
              !.body = @ \ {p}]

\* Controller.remove(snowflake)
remove(m, c, p) ==
    [m EXCEPT !.snowflakes[c] = splice(@, indexOf(@, p)),
              !.body = @ \ {p}]

\* The lifecycle test with >= in place of >.
outOfBoundsInclusive(b, doc) ==
    \/ b.x >= doc.width + b.width
    \/ b.y >= doc.height + b.height

\* The lifecycle test of Controller.animate.
outOfBounds(b, doc) ==
    \/ b.x > doc.width + b.width
    \/ b.y > doc.height + b.height

\* Controller.animate: the for...of loop from (1-based) array index i on.
\* The iterator re-reads the array at every step.
RECURSIVE animateFrom(_, _, _)
animateFrom(m, c, i) ==
    IF i > Len(m.snowflakes[c]) THEN {m}
    ELSE
      LET p == m.snowflakes[c][i]
          step(l) ==
            LET m1 == setLeft(m, p, l)
                m2 == setTop(m1, p, top(m1, p) + config[c].FALL_RATE)
                b  == bounds(m2, p)
            IN  IF outOfBounds(b, m2.document[c])
                THEN UNION { animateFrom(m3, c, i + 1) : m3 \in spawn(remove(m2, c, p), c) }
                ELSE animateFrom(m2, c, i + 1)
      IN  UNION { step(l) : l \in getSine(1, 5, left(m, p) + config[c].SWAY_RATE) }

animate(m, c) == animateFrom(m, c, 1)

\* clear() that resets the array and leaves the elements attached.
clearNoDetach(m, c) ==
    [m EXCEPT !.snowflakes[c] = << >>]

\* clear() that also resets the active flag.
clearDeactivates(m, c) ==
    [m EXCEPT !.body = @ \ Range(m.snowflakes[c]),
              !.snowflakes[c] = << >>,
              !.active[c] = FALSE]

\* Controller.clear
clear(m, c) ==
    [m EXCEPT !.body = @ \ Range(m.snowflakes[c]),
              !.snowflakes[c] = << >>]

\* stop() that drops the handle and leaves the interval running.
stopNoClearInterval(m, c) ==
    [m EXCEPT !.active[c] = FALSE,
              !.interval[c] = Null]

\* stop() that resets the flag only.
stopFlagOnly(m, c) ==
    [m EXCEPT !.active[c] = FALSE]

\* stop() that cancels the interval and leaves the active flag set.
stopKeepsFlag(m, c) ==
    [m EXCEPT !.timers = {t \in @ : t.id # m.interval[c]},
              !.interval[c] = Null]

\* Controller.stop
stop(m, c) ==
    [m EXCEPT !.active[c] = FALSE,
              !.timers = {t \in @ : t.id # m.interval[c]},
              !.interval[c] = Null]

\* resize() that stores the new dimensions before it computes the shift.
resizeStoresFirst(m, c, width, height) ==
    [m EXCEPT !.document[c] = [width |-> width, height |-> height]]

\* Controller.resize
resize(m, c, width, height) ==
    LET dx == width - m.document[c].width
        dy == height - m.document[c].height
        live == Range(m.snowflakes[c])
    IN  [m EXCEPT !.style = [e \in DOMAIN @ |->
                               IF e \in live
                               THEN [@[e] EXCEPT !.left = ToPx(FromPx(@) + dx),
                                                 !.top = ToPx(FromPx(@) + dy)]
                               ELSE @[e]],
                  !.document[c] = [width |-> width, height |-> height]]

----------------------------------------------------------------------------
(* Effect Manager *)

\* controller[cmd](): the machines it may leave, each with whether it threw.
Invoke(m, c, cmd) ==
    CASE cmd = "start"    -> {[m |-> start(m, c), threw |-> FALSE]}
      [] cmd = "stop"     -> {[m |-> stop(m, c), threw |-> FALSE]}
      [] cmd = "clear"    -> {[m |-> clear(m, c), threw |-> FALSE]}
      [] cmd = "generate" -> {[m |-> generate(m, c), threw |-> FALSE]}
      [] cmd = "spawn"    -> {[m |-> m2, threw |-> FALSE] : m2 \in spawn(m, c)}
      [] cmd = "animate"  -> {[m |-> m2, threw |-> FALSE] : m2 \in animate(m, c)}
         \* remove(undefined): indexOf gives -1, splice(-1, 1) drops the last
         \* snowflake, then undefined.element throws a TypeError.
      [] cmd = "remove"   -> {[m |-> [m EXCEPT !.snowflakes[c] = splice(@, 0)], threw |-> TRUE]}
         \* a property that is not a function: calling it throws a TypeError.
      [] OTHER            -> {[m |-> m, threw |-> TRUE]}

\* A dispatch that reaches the first Controller only.
forFirstController(m, c, cmd) == Invoke(m, 1, cmd)

\* for (const controller of aSocketSnow.controllers) { controller[cmd](); }
RECURSIVE forControllers(_, _, _)
forControllers(m, c, cmd) ==
    IF c > Len(config) THEN {[m |-> m, threw |-> FALSE]}
    ELSE UNION { IF r.threw THEN {r} ELSE forControllers(r.m, c + 1, cmd)
                 : r \in Invoke(m, c, cmd) }

\* aSocketSnow.controllers[0][cmd] is truthy.
Truthy(m, cmd) ==
    \/ cmd \in Methods
    \/ cmd = "snowflakes"
    \/ cmd = "active" /\ m.active[1]

\* aSocketSnow.command
command(m, cmd) ==
    IF ~Truthy(m, cmd) THEN {[m |-> m, threw |-> FALSE]}
    ELSE forControllers(m, 1, cmd)

\* The 'resize' listener of aSocketSnow.main
RECURSIVE resizeListener(_, _, _, _)
resizeListener(m, c, width, height) ==
    IF c > Len(config) THEN m
    ELSE resizeListener(resize(m, c, width, height), c + 1, width, height)

----------------------------------------------------------------------------
(* The state machine *)

\* The variables the handlers write, as one machine.
M == [snowflakes |-> snowflakes, document |-> document, active |-> active,
      interval |-> interval, timers |-> timers, pending |-> pending,
      style |-> style, body |-> body]

\* Elements are object identities.  At the end of a handler the elements that
\* are neither attached nor held by a Controller are garbage, and the others
\* are renamed 1, 2, ... in the order of the Controllers' arrays (attached
\* elements that no array holds come last, in their old order), which gives
\* every set of objects one name.
RECURSIVE Flatten(_, _)
Flatten(arrays, c) ==
    IF c = 0 THEN << >> ELSE Flatten(arrays, c - 1) \o arrays[c]

Collect(m) ==
    LET order == Flatten(m.snowflakes, Len(config))
        n     == Len(order)
        loose == m.body \ Range(order)
        nth(k) == CHOOSE e \in loose : Cardinality({f \in loose : f <= e}) = k
    IN  [m EXCEPT !.snowflakes = [c \in Controllers |->
                                     [i \in DOMAIN m.snowflakes[c] |->
                                         Len(Flatten(m.snowflakes, c - 1)) + i]],
                  !.body = {i \in 1..n : order[i] \in m.body}
                              \cup ((n + 1)..(n + Cardinality(loose))),
                  !.style = [k \in 1..(n + Cardinality(loose)) |->
                               IF k <= n THEN m.style[order[k]]
                               ELSE m.style[nth(k - n)]]]

RECURSIVE SumLimits(_)
SumLimits(n) == IF n = 0 THEN 0 ELSE config[n].LIMIT + SumLimits(n - 1)

WithinBounds(m) ==
    /\ Cardinality(m.body) <= SumLimits(Len(config)) + MaxExcess
    /\ \A c \in Controllers : BagCardinality(m.pending[c]) <= MaxPending

Install(m) ==
    /\ WithinBounds(m)
    /\ LET k == Collect(m)
       IN  /\ snowflakes' = k.snowflakes
           /\ style' = k.style
           /\ body' = k.body
    /\ document' = m.document
    /\ active' = m.active
    /\ interval' = m.interval
    /\ timers' = m.timers
    /\ pending' = m.pending

\* aSocketSnow.main: one Controller per profile, each started by its constructor.
Constructed(cfg, v) ==
    /\ config = cfg
    /\ snowflakes = [c \in 1..Len(cfg) |-> << >>]
    /\ document = [c \in 1..Len(cfg) |-> v]
    /\ active = [c \in 1..Len(cfg) |-> TRUE]
    /\ interval = [c \in 1..Len(cfg) |-> c]
    /\ timers = {[id |-> c, ctl |-> c] : c \in 1..Len(cfg)}
    /\ pending = [c \in 1..Len(cfg) |->
                    IF 0 < cfg[c].LIMIT THEN SetToBag({0}) ELSE EmptyBag]
    /\ style = << >>
    /\ body = {}
    /\ ticks = 0

Init == \E v \in Viewports : Constructed(CONFIG, v)

\* A firing of the interval of Controller c: () => { this.animate(); }
Fire(c) ==
    /\ \E t \in timers : t.ctl = c
    /\ \E m \in animate(M, c) : Install(m)

Tick(c) == Fire(c) /\ UNCHANGED <<config, ticks>>

\* The expiry of the delay a generate() call of Controller c awaits.
Timeout(c) ==
    /\ \E i \in BagToSet(pending[c]) : \E m \in generateResume(M, c, i) : Install(m)
    /\ UNCHANGED <<config, ticks>>

\* A resize event of the window.
ResizeTo(v) ==
    /\ Install(resizeListener(M, 1, v.width, v.height))
    /\ UNCHANGED <<config, ticks>>

Resize == \E v \in Viewports : ResizeTo(v)

\* A call of aSocketSnow.command(cmd).
Command(cmd) ==
    /\ \E r \in command(M, cmd) :
          /\ Install(r.m)
          /\ UNCHANGED <<config, ticks>>

Next ==
    \/ \E c \in Controllers : Tick(c)
    \/ \E c \in Controllers : Timeout(c)
    \/ Resize
    \/ \E cmd \in CommandNames : Command(cmd)

Spec == Init /\ [][Next]_vars

\* The Manager of three layers, driven by commands, resize events and
\* population delays.
ManagerInit == \E v \in Viewports : Constructed(CONFIG3, v)

ManagerNext ==
    \/ \E c \in Controllers : Timeout(c)
    \/ Resize
    \/ \E cmd \in ManagerCommands : Command(cmd)

ManagerSpec == ManagerInit /\ [][ManagerNext]_vars

\* The scenario: one Controller {limit: 1, fallRate: 10, swayRate: 0}, viewport
\* 100x100, its single snowflake at vertical position 0, then interval firings.
ScenarioInit ==
    /\ config = << [LIMIT |-> 1, BLUR |-> 1, FALL_RATE |-> 10, SWAY_RATE |-> 0] >>
    /\ snowflakes = << <<1>> >>
    /\ document = << [width |-> 100, height |-> 100] >>
    /\ active = << TRUE >>
    /\ interval = << 1 >>
    /\ timers = {[id |-> 1, ctl |-> 1]}
    /\ pending = << EmptyBag >>
    /\ \E x \in 0..99 : style = (1 :> [left |-> ToPx(x), top |-> ToPx(0), filter |-> 1])
    /\ body = {1}
    /\ ticks = 0

ScenarioTick ==
    /\ ticks < MaxTicks
    /\ Fire(1)
    /\ ticks' = ticks + 1
    /\ UNCHANGED config

ScenarioNext == ScenarioTick

ScenarioSpec == ScenarioInit /\ [][ScenarioNext]_vars

\* The Manager with command(cmd) open to every method name of the Controller.
DispatchNext ==
    \/ Next
    \/ \E cmd \in Methods \ CommandNames : Command(cmd)

DispatchSpec == Init /\ [][DispatchNext]_vars

\* The spawns the suspended generate() calls of Controller c have yet to
\* make: the call waiting with loop counter i makes LIMIT - i of them.
RECURSIVE Outstanding(_, _)
Outstanding(c, S) ==
    IF S = {} THEN 0
    ELSE LET i == Min(S)
         IN  CopiesIn(i, pending[c]) * (config[c].LIMIT - i) + Outstanding(c, S \ {i})

\* The snowflakes of Controllers 1..n together with the spawns still to come.
RECURSIVE Expected(_)
Expected(n) ==
    IF n = 0 THEN 0
    ELSE Len(snowflakes[n]) + Outstanding(n, BagToSet(pending[n])) + Expected(n - 1)

\* The population run: no Controller is ever stopped; population delays
\* expire and intervals fire, the page may be resized, and clear and spawn are
\* commanded, spawn only while the element bound leaves room for every
\* population sequence to finish.
PopulationSpawn ==
    /\ Expected(Len(config)) + Len(config) <= SumLimits(Len(config)) + MaxExcess
    /\ Command("spawn")

PopulationNext ==
    \/ \E c \in Controllers : Tick(c)
    \/ \E c \in Controllers : Timeout(c)
    \/ Resize
    \/ Command("clear")
    \/ PopulationSpawn

\* A pending delay expires (setTimeout) and a running interval keeps firing
\* (setInterval).
PopulationFairness ==
    \A c \in 1..Len(CONFIG3) : WF_vars(Timeout(c)) /\ WF_vars(Tick(c))

PopulationSpec == ManagerInit /\ [][PopulationNext]_vars /\ PopulationFairness

----------------------------------------------------------------------------
(* Properties *)

Live(c) == Range(snowflakes[c])

\* The style of the i-th snowflake of Controller c.  Elements are renamed
\* when a handler ends, so a snowflake is followed across a step by its
\* index: pushes go to the end of the array, and a step that keeps the
\* length of an array keeps its order unless it is a tick.
Flake(c, i) == style[snowflakes[c][i]]

\* C1: in every reachable state every Controller holds at most LIMIT
\* snowflakes.
C1_CountWithinLimit ==
    \A c \in Controllers : Len(snowflakes[c]) <= config[c].LIMIT

\* C2 as stated: while a Controller is stopped, no step changes the position
\* of any of its snowflakes.
C2_StoppedNeverMoves ==
    [][\A c \in Controllers :
          ~active[c] => \A i \in DOMAIN snowflakes[c] \cap DOMAIN snowflakes'[c] :
                           Flake(c, i)' = Flake(c, i)]_vars

\* C2 amended: while a Controller is stopped, no step other than a resize
\* notification that changes the viewport changes the position of any of its
\* snowflakes.
C2_StoppedMovesOnlyOnResize ==
    [][\A c \in Controllers :
          (~active[c] /\ document' = document)
              => \A i \in DOMAIN snowflakes[c] \cap DOMAIN snowflakes'[c] :
                    Flake(c, i)' = Flake(c, i)]_vars

\* A stopped Controller that holds a snowflake while a population delay is
\* still pending.
C2_Witness ==
    \E c \in Controllers :
        /\ ~active[c]
        /\ snowflakes[c] # << >>
        /\ pending[c] # EmptyBag

\* C3: in every reachable state, clear() leaves every live set empty and
\* none of the elements of the snowflakes that were live attached.
C3_ClearEmptiesAndDetaches ==
    \A r \in command(M, "clear") :
        /\ ~r.threw
        /\ \A c \in Controllers :
              /\ r.m.snowflakes[c] = << >>
              /\ Live(c) \cap r.m.body = {}

\* A cleared Controller: active, population finished, and yet empty.
C3_Witness ==
    /\ body = {}
    /\ \E c \in Controllers :
          /\ active[c]
          /\ pending[c] = EmptyBag
          /\ snowflakes[c] = << >>

\* C4: in a tick, every snowflake that is out of bounds after its update is
\* removed and detached, and each is replaced by one new snowflake that is at
\* vertical position 0 when the tick ends.
C4_ExitedReplacedAtTop ==
    \A c \in Controllers :
        (\E t \in timers : t.ctl = c) =>
          \A m \in animate(M, c) :
            LET old == Live(c)
                new == Range(m.snowflakes[c])
            IN  /\ \A p \in old \cap new :
                      top(m, p) = top(M, p) + config[c].FALL_RATE
                        => ~outOfBounds([x |-> left(m, p), y |-> top(m, p),
                                         width |-> FlakeSize, height |-> FlakeSize],
                                        document[c])
                /\ (old \ new) \cap m.body = {}
                /\ Cardinality(new \ old) = Cardinality(old \ new)
                /\ \A q \in new \ old : top(m, q) = 0

\* C5: a tick leaves the number of live snowflakes of every Controller
\* unchanged (a step either keeps every count or is not a tick).
C5_TickKeepsCount ==
    [][\/ \A c \in Controllers : Len(snowflakes'[c]) = Len(snowflakes[c])
       \/ ~(\E d \in Controllers : Tick(d))]_vars

\* A running Controller with two snowflakes, the first of which leaves the
\* viewport at the next tick.
C5_Witness ==
    \E c \in Controllers :
        /\ \E t \in timers : t.ctl = c
        /\ Len(snowflakes[c]) >= 2
        /\ FromPx(Flake(c, 1).top) + config[c].FALL_RATE
              > document[c].height + FlakeSize

\* C6 as stated: in the scenario the snowflake is at vertical position 10
\* after one tick, and after 11 ticks it has been removed and the live set
\* holds one new snowflake at vertical position 0.
C6_ReplacedAfterEleven ==
    /\ ticks = 1 => (Len(snowflakes[1]) = 1 /\ FromPx(Flake(1, 1).top) = 10)
    /\ ticks = 11 => (Len(snowflakes[1]) = 1 /\ FromPx(Flake(1, 1).top) = 0)

\* C6 amended: in the scenario the snowflake is at vertical position
\* 10 * k after k = 1..11 ticks, so it has not been replaced (110 > 100 + 10
\* is false); after the 12th tick the only attached element is one new
\* snowflake at vertical position 0.
C6_ReplacedAfterTwelve ==
    /\ ticks \in 1..11 =>
          /\ Len(snowflakes[1]) = 1
          /\ body = Live(1)
          /\ FromPx(Flake(1, 1).top) = 10 * ticks
    /\ ticks = 12 =>
          /\ Len(snowflakes[1]) = 1
          /\ body = Live(1)
          /\ FromPx(Flake(1, 1).top) = 0

\* The scenario after its 12th tick, the replacement at vertical position 0.
C6_Witness ==
    /\ ticks = 12
    /\ Len(snowflakes[1]) = 1
    /\ FromPx(Flake(1, 1).top) = 0

\* C7: a resize notification to viewport v shifts every live snowflake by
\* exactly (v.width - cached width, v.height - cached height), stores v as
\* the cached dimensions and keeps every live set as it was (a step either
\* has that outcome or is not a resize to v).
C7_ResizeShifts ==
    [][\A v \in Viewports :
          \/ \A c \in Controllers :
                /\ document'[c] = v
                /\ Len(snowflakes'[c]) = Len(snowflakes[c])
                /\ \A i \in DOMAIN snowflakes[c] :
                      /\ snowflakes'[c][i] \in body'
                      /\ FromPx(Flake(c, i)'.left)
                            = FromPx(Flake(c, i).left) + (v.width - document[c].width)
                      /\ FromPx(Flake(c, i)'.top)
                            = FromPx(Flake(c, i).top) + (v.height - document[c].height)
          \/ ~ResizeTo(v)]_vars

\* A snowflake above the top edge: it was shifted by a shrinking resize.
C7_Witness ==
    \E c \in Controllers : \E p \in Live(c) : FromPx(style[p].top) < 0

\* C8: command(name), for a name that is not an operation of the Controller,
\* raises no error and leaves every Controller as it was.
C8_NonOperationIgnored ==
    \A cmd \in CommandNames \ Methods :
        \A r \in command(M, cmd) : ~r.threw /\ r.m = M

\* C9: command("spawn") on a Manager of 3 Controllers, each below its limit,
\* adds exactly one snowflake to each Controller and changes nothing else (a
\* step from such a state either has that outcome or is not a
\* command("spawn") step).
C9_SpawnAddsOneEach ==
    [][\/ ~(Len(config) = 3 /\ \A c \in Controllers : Len(snowflakes[c]) < config[c].LIMIT)
       \/ /\ \A c \in Controllers :
                /\ Len(snowflakes'[c]) = Len(snowflakes[c]) + 1
                /\ \A i \in DOMAIN snowflakes[c] : Flake(c, i)' = Flake(c, i)
                /\ snowflakes'[c][Len(snowflakes'[c])] \in body'
          /\ Cardinality(body') = Cardinality(body) + 3
          /\ UNCHANGED <<document, active, interval, timers, pending>>
       \/ ~Command("spawn")]_vars

\* Three Controllers that each hold a snowflake although the population
\* delay of each is still pending: the snowflakes came from command("spawn").
C9_Witness ==
    /\ Len(config) = 3
    /\ \A c \in Controllers :
          /\ snowflakes[c] # << >>
          /\ Len(snowflakes[c]) <= config[c].LIMIT
          /\ pending[c] = SetToBag({0})

\* C10: start() on an active Controller leaves that Controller as it was:
\* no second interval, no second population sequence (a step either leaves
\* every active Controller as it was or is not a command("start") step).
C10_StartWhenActiveIsNoOp ==
    [][\/ \A c \in Controllers :
              active[c] =>
                /\ active'[c]
                /\ interval'[c] = interval[c]
                /\ {t \in timers' : t.ctl = c} = {t \in timers : t.ctl = c}
                /\ pending'[c] = pending[c]
                /\ Len(snowflakes'[c]) = Len(snowflakes[c])
                /\ document'[c] = document[c]
                /\ \A i \in DOMAIN snowflakes[c] : Flake(c, i)' = Flake(c, i)
       \/ ~Command("start")]_vars

\* An active Controller below its limit with no population delay pending: a
\* start() that ran its body here would launch a population sequence.
C10_Witness ==
    \E c \in Controllers :
        /\ active[c]
        /\ \E t \in timers : t.ctl = c
        /\ Len(snowflakes[c]) < config[c].LIMIT
        /\ pending[c] = EmptyBag

\* C11: in every reachable state, stop() leaves the Controller with
\* active = false and no recurring tick, and a second stop() directly after
\* it leaves the state exactly as the first left it.
C11_StopIdempotent ==
    \A c \in Controllers :
        LET m1 == stop(M, c)
        IN  /\ ~m1.active[c]
            /\ m1.interval[c] = Null
            /\ ~(\E t \in m1.timers : t.ctl = c)
            /\ stop(m1, c) = m1

\* Every Controller stopped, with snowflakes on the overlay and no timer
\* left.
C11_Witness ==
    /\ \A c \in Controllers : ~active[c] /\ interval[c] = Null
    /\ timers = {}
    /\ body # {}

\* C12: in every fair run in which no Controller is ever stopped, the number
\* of live snowflakes of every Controller eventually equals its LIMIT, also
\* when clear or spawn is commanded while the population sequence is in
\* flight.
C12_EventuallyFull ==
    \A c \in 1..Len(CONFIG3) : <>(Len(snowflakes[c]) = config[c].LIMIT)

\* C13: a population sequence in flight when stop() is called spawns no
\* further snowflake, also when start() is called again before its pending
\* delay expires: in every reachable state at most one suspended population
\* sequence of a Controller spawns when its delay expires.
C13_OneSequenceSpawns ==
    \A c \in Controllers :
        LET spawning == {i \in BagToSet(pending[c]) :
                           \E m \in generateResume(M, c, i) :
                              Len(m.snowflakes[c]) > Len(snowflakes[c])}
        IN  BagCardinality([i \in spawning |-> CopiesIn(i, pending[c])]) <= 1

\* C14: one tick updates every snowflake that is live when it starts exactly
\* once: each of them that the tick does not recycle ends the tick with its
\* vertical position increased by exactly FALL_RATE, also when another
\* snowflake exits and is recycled in that tick.
C14_EveryFlakeFallsOnce ==
    \A c \in Controllers :
        (\E t \in timers : t.ctl = c) =>
          \A m \in animate(M, c) :
            \A p \in Live(c) \cap Range(m.snowflakes[c]) :
                top(m, p) = top(M, p) + config[c].FALL_RATE

\* C15: in every reachable state, start, stop, spawn, clear, animate, remove
\* and the population sequence (generate up to its first delay, and each
\* resumption after a delay) leave the cached viewport dimensions of every
\* Controller as they were: only resize() writes them.
C15_OnlyResizeWritesDimensions ==
    \A c \in Controllers :
        /\ start(M, c).document = document
        /\ stop(M, c).document = document
        /\ clear(M, c).document = document
        /\ generate(M, c).document = document
        /\ \A m \in spawn(M, c) : m.document = document
        /\ \A m \in animate(M, c) : m.document = document
        /\ \A p \in Live(c) : remove(M, c, p).document = document
        /\ \A i \in BagToSet(pending[c]) :
              \A m \in generateResume(M, c, i) : m.document = document

\* A stopped Controller that holds a snowflake and a suspended population
\* sequence, its cached dimensions 2x3.
C15_Witness ==
    \E c \in Controllers :
        /\ ~active[c]
        /\ snowflakes[c] # << >>
        /\ pending[c] # EmptyBag
        /\ document[c] = [width |-> 2, height |-> 3]

\* C16: in every reachable state a Controller has a recurring tick timer if
\* and only if its active flag is true, and it never has more than one: the
\* interval its handle names.
C16_TimerIffActive ==
    \A c \in Controllers :
        LET running == {t \in timers : t.ctl = c}
        IN  /\ active[c] <=> running # {}
            /\ Cardinality(running) <= 1
            /\ active[c] => running = {[id |-> interval[c], ctl |-> c]}
            /\ ~active[c] => interval[c] = Null

\* A Controller that was stopped and started again while its first
\* population delay was pending: two suspended sequences, one timer.
C16_Witness ==
    \E c \in Controllers :
        /\ active[c]
        /\ BagCardinality(pending[c]) = 2
        /\ Cardinality({t \in timers : t.ctl = c}) = 1

\* C17: in every reachable state the elements attached to the overlay are
\* exactly the elements of the live snowflakes of all Controllers, and no
\* snowflake is in two live sets or twice in one.
C17_AttachedIffLive ==
    /\ body = UNION {Live(c) : c \in Controllers}
    /\ \A c \in Controllers :
          /\ Cardinality(Live(c)) = Len(snowflakes[c])
          /\ \A d \in Controllers : d # c => Live(c) \cap Live(d) = {}

\* C18: in every reachable state, stop() leaves the live set, the attached
\* elements and every position as they were, and clear() leaves the active
\* flag, the handle and the timers as they were.
C18_StopKeepsFlakesClearKeepsFlag ==
    \A c \in Controllers :
        LET stopped == stop(M, c)
            cleared == clear(M, c)
        IN  /\ stopped.snowflakes = snowflakes
            /\ stopped.body = body
            /\ stopped.style = style
            /\ cleared.active = active
            /\ cleared.interval = interval
            /\ cleared.timers = timers

\* A stopped Controller, its population finished, that still holds a
\* snowflake below the top edge.
C18_Witness ==
    \E c \in Controllers :
        /\ ~active[c]
        /\ pending[c] = EmptyBag
        /\ \E p \in Live(c) : p \in body /\ FromPx(style[p].top) > 0

====
